---------------------------- MODULE Spec2Model ----------------------------
(***************************************************************************)
(* Model of the chat dispatcher of the email assistant backend:           *)
(*   backend/routes/chat.py   process_chat_message, _has_keyword          *)
(*   backend/routes/email.py  delete_email                                *)
(*   backend/routes/auth.py   get_credentials                             *)
(*   backend/utils/ai.py      AIService                                   *)
(*   backend/utils/gmail.py   GmailService                                *)
(*   backend/utils/session.py SessionManager                              *)
(*                                                                         *)
(* Python strings are sequences of one-character strings, so that         *)
(* lower(), strip(), "x in s" and the \b...\b regular expression are       *)
(* computed character by character.                                        *)
(***************************************************************************)
EXTENDS Integers, Sequences, FiniteSets, TLC

(***************************************************************************)
(* Bounds of the model.                                                    *)
(***************************************************************************)
\* words in a user message
MaxWords == 2
\* emails in the context list sent by the caller
MaxContext == 2
\* emails in the provider inbox
MaxInbox == 2
\* clock advances in a run of the session store
MaxTicks == 3

(***************************************************************************)
(* Strings.                                                                *)
(***************************************************************************)
UpperLetters ==
    <<"A","B","C","D","E","F","G","H","I","J","K","L","M",
      "N","O","P","Q","R","S","T","U","V","W","X","Y","Z">>

LowerLetters ==
    <<"a","b","c","d","e","f","g","h","i","j","k","l","m",
      "n","o","p","q","r","s","t","u","v","w","x","y","z">>

Digits == <<"0","1","2","3","4","5","6","7","8","9">>

Range(s) == {s[i] : i \in DOMAIN s}

\* str.lower() on one character
LowerChar(c) ==
    IF \E i \in DOMAIN UpperLetters : UpperLetters[i] = c
    THEN LowerLetters[CHOOSE i \in DOMAIN UpperLetters : UpperLetters[i] = c]
    ELSE c

\* str.lower()
Lower(s) == [i \in DOMAIN s |-> LowerChar(s[i])]

IsSpace(c) == c = " "

\* str.strip(): drop the leading and the trailing whitespace
Strip(s) ==
    LET keep == {i \in DOMAIN s : ~IsSpace(s[i])}
    IN  IF keep = {} THEN <<>>
        ELSE LET lo == CHOOSE i \in keep : \A j \in keep : i <= j
                 hi == CHOOSE i \in keep : \A j \in keep : j <= i
             IN  SubSeq(s, lo, hi)

\* the regular expression class \w
WordChars ==
    {"a","b","c","d","e","f","g","h","i","j","k","l","m",
     "n","o","p","q","r","s","t","u","v","w","x","y","z",
     "A","B","C","D","E","F","G","H","I","J","K","L","M",
     "N","O","P","Q","R","S","T","U","V","W","X","Y","Z",
     "0","1","2","3","4","5","6","7","8","9","_"}

IsWordChar(c) == c \in WordChars

\* needle occurs in hay at position i (1-based)
OccursAt(needle, hay, i) ==
    /\ i >= 1
    /\ i + Len(needle) - 1 <= Len(hay)
    /\ \A k \in 1..Len(needle) : hay[i + k - 1] = needle[k]

\* Python's  needle in hay
Contains(hay, needle) ==
    \E i \in 1..(Len(hay) + 1) : OccursAt(needle, hay, i)

\* \b at the gap before position i of s (between s[i-1] and s[i])
WordBoundary(s, i) ==
    LET before == i > 1 /\ i - 1 <= Len(s) /\ IsWordChar(s[i - 1])
        after  == i >= 1 /\ i <= Len(s) /\ IsWordChar(s[i])
    IN  before # after

\* re.search(rf"\b{re.escape(keyword)}\b", user_message)
SearchWord(keyword, user_message) ==
    \E i \in 1..Len(user_message) :
        /\ OccursAt(keyword, user_message, i)
        /\ WordBoundary(user_message, i)
        /\ WordBoundary(user_message, i + Len(keyword))

\* a mutant of HasKeyword: substring match instead of whole-word match
HasKeywordSubstring(user_message, keywords) ==
    \E k \in keywords : Contains(user_message, k)

\* _has_keyword(user_message, keywords)
HasKeyword(user_message, keywords) ==
    \E k \in keywords : SearchWord(k, user_message)

\* str.isdigit() for ASCII text
IsDigit(s) == Len(s) > 0 /\ \A i \in DOMAIN s : s[i] \in Range(Digits)

DigitValue(c) == (CHOOSE i \in DOMAIN Digits : Digits[i] = c) - 1

\* int(s) for a string of ASCII digits
RECURSIVE ToInt(_)
ToInt(s) ==
    IF Len(s) = 0 THEN 0
    ELSE 10 * ToInt(SubSeq(s, 1, Len(s) - 1)) + DigitValue(s[Len(s)])

(***************************************************************************)
(* Text constants of chat.py.                                              *)
(***************************************************************************)
W_read == <<"r","e","a","d">>
W_show == <<"s","h","o","w">>
W_fetch == <<"f","e","t","c","h">>
W_reply == <<"r","e","p","l","y">>
W_respond == <<"r","e","s","p","o","n","d">>
W_delete == <<"d","e","l","e","t","e">>
W_remove == <<"r","e","m","o","v","e">>
W_digest == <<"d","i","g","e","s","t">>
W_summary == <<"s","u","m","m","a","r","y">>
W_few == <<"f","e","w">>
W_some == <<"s","o","m","e">>
W_many == <<"m","a","n","y">>
W_all == <<"a","l","l">>
W_20 == <<"2","0">>

\* chat.py:70, 97, 139, 186: the keyword list of each branch
ReadKeywords == {W_read, W_show, W_fetch}
ReplyKeywords == {W_reply, W_respond}
DeleteKeywords == {W_delete, W_remove}
DigestKeywords == {W_digest, W_summary}

\* chat.py:72 and chat.py:76, 188
DefaultMaxResults == 5
LargeMaxResults == 20

(***************************************************************************)
(* User messages: up to MaxWords words of a vocabulary, joined by single   *)
(* spaces.  The vocabulary holds one keyword of each branch, the count     *)
(* words, an upper-case keyword, keywords inside longer words, the         *)
(* separators - and _, and the empty word (which yields leading, trailing  *)
(* and doubled spaces).                                                    *)
(***************************************************************************)
Vocabulary ==
    {W_show, W_reply, W_delete, W_digest,
     W_few, W_some, W_many, W_all, W_20,
     <<"R","e","m","o","v","e">>, <<"u","n","r","e","a","d">>,
     <<"n","o","-","r","e","p","l","y">>, <<"s","h","o","w","_","a","l","l">>,
     <<"h","i">>, <<>>}

RECURSIVE JoinWords(_)
JoinWords(ws) ==
    IF Len(ws) = 0 THEN <<>>
    ELSE IF Len(ws) = 1 THEN ws[1]
    ELSE ws[1] \o <<" ">> \o JoinWords(Tail(ws))

SeqsUpTo(S, n) == UNION {[1..k -> S] : k \in 0..n}

Messages == {JoinWords(ws) : ws \in SeqsUpTo(Vocabulary, MaxWords)}

(***************************************************************************)
(* JSON values of the classifier's parameters, as Python sees them.        *)
(***************************************************************************)
JStr(s) == [t |-> "str", s |-> s, n |-> 0]
JNum(n) == [t |-> "num", s |-> <<>>, n |-> n]
JNull == [t |-> "null", s |-> <<>>, n |-> 0]
\* the key is not in the dict
JAbsent == [t |-> "absent", s |-> <<>>, n |-> 0]

\* Python truthiness: bool(v)
Truthy(v) ==
    CASE v.t = "str" -> v.s # <<>>
      [] v.t = "num" -> v.n # 0
      [] OTHER -> FALSE

ParamKeys == {"sender_email", "subject_keyword", "email_index", "action_details"}

\* parameters: a dict (d gives each key's value, JAbsent for a missing key) or null
ParamsDict(d) == [t |-> "dict", d |-> d]
EmptyParams == ParamsDict([k \in ParamKeys |-> JAbsent])
ParamsNull == [t |-> "null", d |-> [k \in ParamKeys |-> JAbsent]]

\* parameters.get(key, "")
ParamGet(parameters, key) ==
    IF parameters.d[key].t = "absent" THEN JStr(<<>>) ELSE parameters.d[key]

(***************************************************************************)
(* Emails.  sender_email and subject are text; the other fields are only   *)
(* copied.                                                                 *)
(***************************************************************************)
Email1 ==
    [id |-> "m1", thread_id |-> "th1", sender_name |-> "Al",
     sender_email |-> <<"a","l","@","x">>, subject |-> <<"B","i","l","l">>]
Email2 ==
    [id |-> "m2", thread_id |-> "th2", sender_name |-> "Alma",
     sender_email |-> <<"A","L","@","y">>, subject |-> <<"h","i">>]
Email3 ==
    [id |-> "m3", thread_id |-> "th3", sender_name |-> "Bo",
     sender_email |-> <<"b","o","@","x">>, subject |-> <<"b","i","l","l","s">>]
Email4 ==
    [id |-> "m4", thread_id |-> "th4", sender_name |-> "Cy",
     sender_email |-> <<"c","y","@","y">>, subject |-> <<"t","a","x">>]

EmailPool == <<Email1, Email2, Email3, Email4>>

\* an email whose sender and subject hold keywords of the chat branches
Email5 ==
    [id |-> "m5", thread_id |-> "th5", sender_name |-> "Reply",
     sender_email |-> <<"r","e","p","l","y","@","x">>,
     subject |-> <<"d","e","l","e","t","e"," ","s","h","o","w">>]

\* Python's None where an email is expected
NoEmail == [id |-> "none"]

\* the provider inbox: the most recent emails first
Inboxes == {SubSeq(EmailPool, 1, k) : k \in 0..MaxInbox}

\* the context lists a caller may send
Contexts == SeqsUpTo({Email1, Email2, Email3}, MaxContext)

\* list[:n]
Take(s, n) == SubSeq(s, 1, IF n < Len(s) THEN n ELSE Len(s))

\* the subsequence of s at the indices in keep
RECURSIVE SelectIdx(_, _, _)
SelectIdx(s, keep, i) ==
    IF i > Len(s) THEN <<>>
    ELSE (IF i \in keep THEN <<s[i]>> ELSE <<>>) \o SelectIdx(s, keep, i + 1)

(***************************************************************************)
(* SessionManager (utils/session.py); the clock counts hours.              *)
(***************************************************************************)
\* session.py:13  timedelta(hours=24)
SessionExpiry == 24

Tokens == {"t1", "t2"}

NoSession == [exists |-> FALSE]

NewSession(creds, t) ==
    [exists |-> TRUE, credentials |-> creds, created_at |-> t,
     expires_at |-> t + SessionExpiry]

\* a mutant of GetSession: an expired session is refused but stays in the
\* store
GetSessionNoRemove(store, session_token, t) ==
    LET session == store[session_token]
    IN  IF session.exists /\ t <= session.expires_at
        THEN [session |-> session, store |-> store]
        ELSE [session |-> NoSession, store |-> store]

\* a mutant of GetSession: expires_at is not looked at
GetSessionNoExpiry(store, session_token, t) ==
    [session |-> store[session_token], store |-> store]

\* SessionManager.get_session: the session returned (NoSession for None)
\* and the store after the call
GetSession(store, session_token, t) ==
    LET session == store[session_token]
    IN  IF ~session.exists
        THEN [session |-> NoSession, store |-> store]
        ELSE IF t > session.expires_at
        THEN [session |-> NoSession,
              store |-> [store EXCEPT ![session_token] = NoSession]]
        ELSE [session |-> session, store |-> store]

\* SessionManager.create_session, session_token being what
\* secrets.token_urlsafe(32) returned
CreateSession(store, session_token, creds, t) ==
    [store EXCEPT ![session_token] = NewSession(creds, t)]

\* a mutant of DeleteSession: the entry stays
DeleteSessionKeeps(store, session_token) == store

\* SessionManager.delete_session
DeleteSession(store, session_token) ==
    IF store[session_token].exists
    THEN [store EXCEPT ![session_token] = NoSession]
    ELSE store

\* SessionManager.refresh_session: what it returns, and the store after
RefreshSession(store, session_token, t) ==
    IF store[session_token].exists
    THEN [ok |-> TRUE,
          store |-> [store EXCEPT ![session_token].expires_at = t + SessionExpiry]]
    ELSE [ok |-> FALSE, store |-> store]

\* The credential material of a session: "valid"; "missing" (no
\* "credentials" entry); "expired" with a refresh token; "stale" (not valid
\* and not refreshable).
CredentialStates == {"valid", "missing", "expired", "stale"}

\* auth.get_credentials: ok, or the detail of the HTTP 401 raised, and the
\* store after the call.  refresh_ok is the outcome of credentials.refresh()
\* when it is called.
GetCredentials(store, session_token, t, refresh_ok) ==
    LET got == GetSession(store, session_token, t)
        Fail(detail) == [ok |-> FALSE, detail |-> detail, store |-> got.store]
    IN  IF ~got.session.exists THEN Fail("Invalid or expired session")
        ELSE IF got.session.credentials = "missing" THEN Fail("No credentials found")
        ELSE IF got.session.credentials = "valid"
        THEN [ok |-> TRUE, detail |-> "", store |-> got.store]
        ELSE IF got.session.credentials = "expired"
        THEN IF refresh_ok
             THEN [ok |-> TRUE, detail |-> "",
                   store |-> [got.store EXCEPT ![session_token].credentials = "valid"]]
             ELSE Fail("Failed to refresh credentials")
        ELSE Fail("Credentials expired")

\* the outcomes credentials.refresh() can have in the state of the store
RefreshOutcomes(store, session_token) ==
    IF store[session_token].exists /\ store[session_token].credentials = "expired"
    THEN BOOLEAN ELSE {TRUE}

(***************************************************************************)
(* AIService (utils/ai.py).  The language model's answer is an input:      *)
(* the call fails, or returns text.                                        *)
(***************************************************************************)
\* what the model answers to the classification prompt
LmKinds == {"transport_error", "no_content", "unparsable", "non_object", "object"}

\* a classifier result: a dict with the keys in `keys`
CommandResult(keys, intent, parameters, confidence) ==
    [keys |-> keys, intent |-> intent, parameters |-> parameters,
     confidence |-> confidence]

\* ai.py:151-156
FallbackCommand ==
    CommandResult({"intent", "parameters", "confidence", "error"},
                  "unknown", EmptyParams, "low")

\* a mutant of ProcessNaturalLanguageCommand: without the except clause of
\* ai.py:149-156, whatever came back is handed on
ProcessNaturalLanguageCommandUnguarded(lm) == lm.obj

\* AIService.process_natural_language_command
ProcessNaturalLanguageCommand(lm) ==
    IF lm.kind = "object" THEN lm.obj ELSE FallbackCommand

\* ai.py:59
SummaryPlaceholder == "Unable to generate summary at this time."
\* ai.py:102
ReplyPlaceholder ==
    "I apologize, but I'm having trouble generating a reply right now. Please try again later."
\* ai.py:195
DigestPlaceholder == "Unable to generate digest at this time."

\* the text the model writes, when it answers: abstract, but tied to its subject
LmText(what, id) == [kind |-> what, of |-> id, text |-> "model text"]
FixedText(str) == [kind |-> "fixed", of |-> "", text |-> str]

\* AIService.generate_summary: lm is "text", "none" (content is None) or "error"
GenerateSummary(email, lm) ==
    IF lm = "error" THEN FixedText(SummaryPlaceholder)
    ELSE IF lm = "none" THEN FixedText("")
    ELSE LmText("summary", email.id)

\* AIService.generate_reply
GenerateReply(original_email, lm) ==
    IF lm = "error" THEN FixedText(ReplyPlaceholder)
    ELSE IF lm = "none" THEN FixedText("")
    ELSE LmText("reply", original_email.id)

\* AIService.generate_daily_digest
GenerateDailyDigest(emails, lm) ==
    IF lm = "error" THEN FixedText(DigestPlaceholder)
    ELSE IF lm = "none" THEN FixedText("")
    ELSE LmText("digest", "")

LmOutcomes == {"text", "none", "error"}

(***************************************************************************)
(* GmailService (utils/gmail.py).  What the provider answers is an input.  *)
(***************************************************************************)
\* a Mailbox Client call, as the provider sees it: the operation, the
\* number of results asked for, the search argument, how it ended, and the
\* ids of the messages it returned or acted on
Call(op, n, arg, outcome, ids) ==
    [op |-> op, n |-> n, arg |-> arg, outcome |-> outcome, ids |-> ids]

IdsOf(emails) == [i \in DOMAIN emails |-> emails[i].id]

\* how messages().list() may end: ok, or an HttpError with a status
ListOutcomes == {"ok", "http_401", "http_403", "http_503"}

\* GmailService.get_recent_emails: list fails -> the HttpError is re-raised;
\* a message whose get() fails (its index is in failed) is skipped
GetRecentEmails(box, max_results, list, failed) ==
    IF list # "ok"
    THEN [raised |-> TRUE, emails |-> <<>>]
    ELSE LET messages == Take(box, max_results)
         IN  [raised |-> FALSE,
              emails |-> SelectIdx(messages, DOMAIN messages \ failed, 1)]

\* how a provider search may end: an email of the inbox is found, nothing
\* is found, an HttpError (logged, None returned), any other exception
FindOutcomes(box) ==
    {[kind |-> "found", email |-> e] : e \in Range(box)}
    \cup {[kind |-> k, email |-> NoEmail] : k \in {"none", "http_error", "other_error"}}

\* GmailService.find_email_by_sender / find_email_by_subject
FindEmail(outcome) ==
    [raised |-> outcome.kind = "other_error",
     email |-> IF outcome.kind = "found" THEN outcome.email ELSE NoEmail]

\* the inbox without the message message_id
RemoveEmail(box, message_id) ==
    SelectIdx(box, {i \in DOMAIN box : box[i].id # message_id}, 1)

(***************************************************************************)
(* routes/chat.py: the decisions of process_chat_message.                  *)
(***************************************************************************)
\* a mutant of BranchOf: the classifier's intent overrides the keywords
BranchOfIntentFirst(intent, user_message) ==
    IF intent \in {"read", "reply", "delete", "digest"} THEN intent
    ELSE IF HasKeyword(user_message, ReadKeywords) THEN "read"
    ELSE IF HasKeyword(user_message, ReplyKeywords) THEN "reply"
    ELSE IF HasKeyword(user_message, DeleteKeywords) THEN "delete"
    ELSE IF HasKeyword(user_message, DigestKeywords) THEN "digest"
    ELSE "info"

\* a mutant of BranchOf: the keyword fallback is missing
BranchOfIntentOnly(intent, user_message) ==
    IF intent \in {"read", "reply", "delete", "digest"} THEN intent ELSE "info"

\* a mutant of BranchOf: the unclear-command default fetches the emails
BranchOfDefaultRead(intent, user_message) ==
    IF intent = "read" \/ HasKeyword(user_message, ReadKeywords) THEN "read"
    ELSE IF intent = "reply" \/ HasKeyword(user_message, ReplyKeywords) THEN "reply"
    ELSE IF intent = "delete" \/ HasKeyword(user_message, DeleteKeywords) THEN "delete"
    ELSE IF intent = "digest" \/ HasKeyword(user_message, DigestKeywords) THEN "digest"
    ELSE "read"

\* the if / elif chain of chat.py:70, 97, 139, 186, 195
BranchOf(intent, user_message) ==
    IF intent = "read" \/ HasKeyword(user_message, ReadKeywords) THEN "read"
    ELSE IF intent = "reply" \/ HasKeyword(user_message, ReplyKeywords) THEN "reply"
    ELSE IF intent = "delete" \/ HasKeyword(user_message, DeleteKeywords) THEN "delete"
    ELSE IF intent = "digest" \/ HasKeyword(user_message, DigestKeywords) THEN "digest"
    ELSE "info"

\* a mutant of ReadMaxResults: without the few / some test
ReadMaxResultsNoFew(user_message) ==
    IF \/ Contains(user_message, W_many)
       \/ Contains(user_message, W_all)
       \/ Contains(user_message, W_20)
    THEN LargeMaxResults
    ELSE DefaultMaxResults

\* chat.py:72-76
ReadMaxResults(user_message) ==
    IF Contains(user_message, W_few) \/ Contains(user_message, W_some)
    THEN DefaultMaxResults
    ELSE IF \/ Contains(user_message, W_many)
            \/ Contains(user_message, W_all)
            \/ Contains(user_message, W_20)
    THEN LargeMaxResults
    ELSE DefaultMaxResults

\* for email in email_context: if needle.lower() in email.get(field, '').lower()
FirstMatch(email_context, field, needle) ==
    LET hits == {i \in DOMAIN email_context :
                    Contains(Lower(email_context[i][field]), Lower(needle))}
    IN  IF hits = {} THEN NoEmail
        ELSE email_context[CHOOSE i \in hits : \A j \in hits : i <= j]

Resolved(target) == [raised |-> FALSE, target |-> target]
\* an AttributeError: a string method called on a value that is no string
Crashed == [raised |-> TRUE, target |-> NoEmail]

\* a mutant of ReplyContextTarget: the sender is tried before the index
ReplyContextTargetSenderFirst(email_context, email_index, sender_email) ==
    IF Len(email_context) = 0 THEN Resolved(NoEmail)
    ELSE IF Truthy(sender_email)
    THEN IF sender_email.t # "str" THEN Crashed
         ELSE Resolved(FirstMatch(email_context, "sender_email", sender_email.s))
    ELSE IF Truthy(email_index)
    THEN IF email_index.t # "str" THEN Crashed
         ELSE IF IsDigit(email_index.s)
                 /\ 0 <= ToInt(email_index.s) - 1
                 /\ ToInt(email_index.s) - 1 < Len(email_context)
         THEN Resolved(email_context[ToInt(email_index.s)])
         ELSE Resolved(NoEmail)
    ELSE Resolved(NoEmail)

\* the sender scan of chat.py:111-115 and 153-157
SenderScan(email_context, sender_email) ==
    IF sender_email.t # "str" THEN Crashed
    ELSE Resolved(FirstMatch(email_context, "sender_email", sender_email.s))

\* the subject scan of chat.py:158-162
SubjectScan(email_context, subject_keyword) ==
    IF subject_keyword.t # "str" THEN Crashed
    ELSE Resolved(FirstMatch(email_context, "subject", subject_keyword.s))

\* email_context[int(email_index) - 1] when that is inside the list
IndexTarget(email_context, email_index) ==
    LET idx == ToInt(email_index.s) - 1
    IN  IF 0 <= idx /\ idx < Len(email_context)
        THEN Resolved(email_context[idx + 1])
        ELSE Resolved(NoEmail)

\* a mutant of ReplyContextTarget: with nothing named, the first context
\* email is taken
ReplyContextTargetDefaultFirst(email_context, email_index, sender_email) ==
    IF Len(email_context) = 0 THEN Resolved(NoEmail)
    ELSE IF Truthy(email_index) /\ email_index.t # "str" THEN Crashed
    ELSE IF Truthy(email_index) /\ IsDigit(email_index.s)
    THEN IndexTarget(email_context, email_index)
    ELSE IF Truthy(sender_email)
    THEN SenderScan(email_context, sender_email)
    ELSE Resolved(email_context[1])

\* chat.py:106-115: the target found in the context list, or NoEmail
ReplyContextTarget(email_context, email_index, sender_email) ==
    IF Len(email_context) = 0 THEN Resolved(NoEmail)
    ELSE IF Truthy(email_index) /\ email_index.t # "str" THEN Crashed
    ELSE IF Truthy(email_index) /\ IsDigit(email_index.s)
    THEN IndexTarget(email_context, email_index)
    ELSE IF Truthy(sender_email)
    THEN SenderScan(email_context, sender_email)
    ELSE Resolved(NoEmail)

\* a mutant of DeleteContextTarget: the sender is tried before the index
DeleteContextTargetSenderFirst(email_context, email_index, sender_email, subject_keyword) ==
    IF Len(email_context) = 0 THEN Resolved(NoEmail)
    ELSE IF Truthy(sender_email)
    THEN SenderScan(email_context, sender_email)
    ELSE IF Truthy(email_index) /\ email_index.t # "str" THEN Crashed
    ELSE IF Truthy(email_index) /\ IsDigit(email_index.s)
    THEN IndexTarget(email_context, email_index)
    ELSE IF Truthy(subject_keyword)
    THEN SubjectScan(email_context, subject_keyword)
    ELSE Resolved(NoEmail)

\* chat.py:148-162
DeleteContextTarget(email_context, email_index, sender_email, subject_keyword) ==
    IF Len(email_context) = 0 THEN Resolved(NoEmail)
    ELSE IF Truthy(email_index) /\ email_index.t # "str" THEN Crashed
    ELSE IF Truthy(email_index) /\ IsDigit(email_index.s)
    THEN IndexTarget(email_context, email_index)
    ELSE IF Truthy(sender_email)
    THEN SenderScan(email_context, sender_email)
    ELSE IF Truthy(subject_keyword)
    THEN SubjectScan(email_context, subject_keyword)
    ELSE Resolved(NoEmail)

\* chat.py:118: which provider search the reply branch runs
ReplyProviderSearch(target, sender_email) ==
    IF target = NoEmail /\ Truthy(sender_email) THEN "sender" ELSE "none"

\* chat.py:165-169: which provider search the delete branch runs
DeleteProviderSearch(target, sender_email, subject_keyword) ==
    IF target # NoEmail THEN "none"
    ELSE IF Truthy(sender_email) THEN "sender"
    ELSE IF Truthy(subject_keyword) THEN "subject"
    ELSE "none"

(***************************************************************************)
(* State.                                                                  *)
(***************************************************************************)
VARIABLES
    pc,             \* "ready": the chat request is in; "chat_done"; "delete_done"
    message,        \* request.message
    email_context,  \* request.email_context
    token,          \* the session token of the request
    lm,             \* what the language model answers to the classification
    sessions,       \* SessionManager.sessions
    now,            \* datetime.now(), in hours
    inbox,          \* the provider inbox
    response,       \* the HTTP response of the last handler
    calls,          \* the Mailbox Client calls of the last handler, in order
    llm_calls,      \* the Language Model Client calls of the last handler
    branch,         \* the branch process_chat_message took
    target,         \* target_email when the reply or delete branch ended
    issued          \* the session tokens create_session has handed out

vars == <<pc, message, email_context, token, lm, sessions, now, inbox,
          response, calls, llm_calls, branch, target, issued>>

request_vars == <<message, email_context, token, lm, now, issued>>

NoData == [none |-> TRUE]
NoResponse == [status |-> 0]

\* a mutant of Envelope: the intent field names the branch that answered
EnvelopeIntentOfBranch(intent, confidence, text, name, n, action, data) ==
    [status |-> 200,
     intent |-> CASE action = "display_emails" -> "read"
                  [] action = "display_reply" -> "reply"
                  [] action = "confirm_delete" -> "delete"
                  [] action = "display_digest" -> "digest"
                  [] OTHER -> intent,
     confidence |-> confidence,
     message |-> [text |-> text, name |-> name, n |-> n],
     action |-> action, data |-> data]

\* the ResponseEnvelope, returned with HTTP 200
Envelope(intent, confidence, text, name, n, action, data) ==
    [status |-> 200, intent |-> intent, confidence |-> confidence,
     message |-> [text |-> text, name |-> name, n |-> n],
     action |-> action, data |-> data]

\* raise HTTPException(status_code, detail)
HttpError(status, detail) == [status |-> status, detail |-> detail]

LlmCall(op, id, outcome) == [op |-> op, id |-> id, outcome |-> outcome]

\* dict.get(key, default) on the classifier result
DictGet(d, key, default) == IF key \in d.keys THEN d[key] ELSE default

\* email['ai_summary'] = summary
WithSummary(email, summary) == email @@ [ai_summary |-> summary]

\* the handler returns: the response, the calls it made, and its locals
Finish(resp, cs, lcs, br, tgt, store, box) ==
    /\ pc' = "chat_done"
    /\ response' = resp
    /\ calls' = cs
    /\ llm_calls' = lcs
    /\ branch' = br
    /\ target' = tgt
    /\ sessions' = store
    /\ inbox' = box
    /\ UNCHANGED request_vars

\* chat.py:211-213: any exception that is no HTTPException becomes a 500
ServerError == HttpError(500, "str(e)")

(***************************************************************************)
(* process_chat_message, branch by branch.  Each takes the session store  *)
(* after get_credentials, the classifier's intent and confidence, and the *)
(* Language Model Client calls made so far.                                *)
(***************************************************************************)
\* a mutant of Summarize: the first failed summary ends the loop
SummarizeAbortOnFailure(emails, lms) ==
    LET bad == {i \in DOMAIN emails : lms[i] = "error"}
        stop == IF bad = {} THEN Len(emails) + 1
                ELSE CHOOSE i \in bad : \A j \in bad : i <= j
    IN  [i \in 1..(stop - 1) |->
            WithSummary(emails[i], GenerateSummary(emails[i], lms[i]))]

\* chat.py:81-91: every email gets its summary; lms[i] is how the model
\* call for the i-th email ends
Summarize(emails, lms) ==
    [i \in DOMAIN emails |->
        WithSummary(emails[i], GenerateSummary(emails[i], lms[i]))]

\* chat.py:72-95
ReadBranch(store, intent, confidence, user_message, lcs) ==
    LET max_results == ReadMaxResults(user_message)
    IN  \E list \in ListOutcomes :
        \E failed \in SUBSET (DOMAIN Take(inbox, max_results)) :
        LET got == GetRecentEmails(inbox, max_results, list, failed)
            cs == <<Call("get_recent_emails", max_results, JNull, list,
                         IdsOf(got.emails))>>
        IN  IF got.raised
            THEN /\ failed = {}
                 /\ Finish(ServerError, cs, lcs, "read", NoEmail, store, inbox)
            ELSE \E lms \in [DOMAIN got.emails -> LmOutcomes] :
                 LET emails == Summarize(got.emails, lms)
                     sums == [i \in DOMAIN got.emails |->
                                  LlmCall("summary", got.emails[i].id, lms[i])]
                 IN  Finish(Envelope(intent, confidence,
                                     "I found {n} recent emails. Here they are:",
                                     "", Len(emails),
                                     "display_emails", [emails |-> emails]),
                            cs, lcs \o sums, "read", NoEmail, store, inbox)

\* the provider search of chat.py:119 and 167-169, when one is run:
\* the result, with the call as the provider sees it
ProviderSearch(which, arg, outcome) ==
    [raised |-> FindEmail(outcome).raised,
     email |-> FindEmail(outcome).email,
     calls |-> <<Call(IF which = "sender" THEN "find_email_by_sender"
                                          ELSE "find_email_by_subject",
                      1, arg, outcome.kind,
                      IF outcome.kind = "found" THEN <<outcome.email.id>> ELSE <<>>)>>]

\* a mutant of ReplyResult: a failed reply generation ends the request
ReplyResultAbortOnFailure(store, intent, confidence, action_details, tgt, cs, lcs) ==
    IF tgt # NoEmail
    THEN \E out \in LmOutcomes :
         Finish(IF out = "error" THEN ServerError
                ELSE Envelope(intent, confidence,
                         "Here's a suggested reply to the email from {sender_name}:",
                         tgt.sender_name, 0, "display_reply",
                         [reply |-> GenerateReply(tgt, out),
                          original_email |->
                              [id |-> tgt.id, sender_email |-> tgt.sender_email,
                               sender_name |-> tgt.sender_name,
                               subject |-> tgt.subject,
                               thread_id |-> tgt.thread_id]]),
                cs, lcs \o <<LlmCall("reply", tgt.id, out)>>, "reply", tgt, store, inbox)
    ELSE Finish(Envelope(intent, confidence,
                         "I couldn't find the email you want to reply to.",
                         "", 0, "error", NoData),
                cs, lcs, "reply", NoEmail, store, inbox)

\* chat.py:121-137 once target_email is settled
ReplyResult(store, intent, confidence, action_details, tgt, cs, lcs) ==
    IF tgt # NoEmail
    THEN \E out \in LmOutcomes :
         Finish(Envelope(intent, confidence,
                         "Here's a suggested reply to the email from {sender_name}:",
                         tgt.sender_name, 0, "display_reply",
                         [reply |-> GenerateReply(tgt, out),
                          original_email |->
                              [id |-> tgt.id, sender_email |-> tgt.sender_email,
                               sender_name |-> tgt.sender_name,
                               subject |-> tgt.subject,
                               thread_id |-> tgt.thread_id]]),
                cs, lcs \o <<LlmCall("reply", tgt.id, out)>>, "reply", tgt, store, inbox)
    ELSE Finish(Envelope(intent, confidence,
                         "I couldn't find the email you want to reply to.",
                         "", 0, "error", NoData),
                cs, lcs, "reply", NoEmail, store, inbox)

\* chat.py:98-137
ReplyBranch(store, intent, confidence, parameters, lcs) ==
    IF parameters.t # "dict"
    THEN Finish(ServerError, <<>>, lcs, "reply", NoEmail, store, inbox)
    ELSE
    LET sender_email == ParamGet(parameters, "sender_email")
        email_index == ParamGet(parameters, "email_index")
        user_context == ParamGet(parameters, "action_details")
        found == ReplyContextTarget(email_context, email_index, sender_email)
    IN  IF found.raised
        THEN Finish(ServerError, <<>>, lcs, "reply", NoEmail, store, inbox)
        ELSE IF ReplyProviderSearch(found.target, sender_email) = "sender"
        THEN \E outcome \in FindOutcomes(inbox) :
             LET srch == ProviderSearch("sender", sender_email, outcome)
             IN  IF srch.raised
                 THEN Finish(ServerError, srch.calls, lcs, "reply", NoEmail, store, inbox)
                 ELSE ReplyResult(store, intent, confidence, user_context,
                                  srch.email, srch.calls, lcs)
        ELSE ReplyResult(store, intent, confidence, user_context,
                         found.target, <<>>, lcs)

\* a mutant of ConfirmDelete: the chat branch deletes at once
ConfirmDeleteAutoCommit(tgt, box) ==
    [calls |-> <<Call("delete_email", 0, JNull, "ok", <<tgt.id>>)>>,
     inbox |-> RemoveEmail(box, tgt.id)]

\* chat.py:171-181: with a target, the delete branch only builds the
\* confirmation; it makes no Mailbox Client call and the inbox stays
ConfirmDelete(tgt, box) == [calls |-> <<>>, inbox |-> box]

\* chat.py:171-184 once target_email is settled
DeleteResult(store, intent, confidence, tgt, cs, lcs) ==
    IF tgt # NoEmail
    THEN Finish(Envelope(intent, confidence,
                         "I found the email from {sender_name} with subject '{subject}'. Are you sure you want to delete it?",
                         tgt.sender_name, 0, "confirm_delete",
                         [email |-> [id |-> tgt.id,
                                     sender_name |-> tgt.sender_name,
                                     sender_email |-> tgt.sender_email,
                                     subject |-> tgt.subject]]),
                cs \o ConfirmDelete(tgt, inbox).calls, lcs, "delete", tgt, store,
                ConfirmDelete(tgt, inbox).inbox)
    ELSE Finish(Envelope(intent, confidence,
                         "I couldn't find the email you want to delete.",
                         "", 0, "error", NoData),
                cs, lcs, "delete", NoEmail, store, inbox)

\* chat.py:140-184
DeleteBranch(store, intent, confidence, parameters, lcs) ==
    IF parameters.t # "dict"
    THEN Finish(ServerError, <<>>, lcs, "delete", NoEmail, store, inbox)
    ELSE
    LET sender_email == ParamGet(parameters, "sender_email")
        subject_keyword == ParamGet(parameters, "subject_keyword")
        email_index == ParamGet(parameters, "email_index")
        found == DeleteContextTarget(email_context, email_index, sender_email,
                                     subject_keyword)
        which == DeleteProviderSearch(found.target, sender_email, subject_keyword)
    IN  IF found.raised
        THEN Finish(ServerError, <<>>, lcs, "delete", NoEmail, store, inbox)
        ELSE IF which # "none"
        THEN \E outcome \in FindOutcomes(inbox) :
             LET srch == ProviderSearch(which,
                                        IF which = "sender" THEN sender_email
                                                            ELSE subject_keyword,
                                        outcome)
             IN  IF srch.raised
                 THEN Finish(ServerError, srch.calls, lcs, "delete", NoEmail, store, inbox)
                 ELSE DeleteResult(store, intent, confidence, srch.email,
                                   srch.calls, lcs)
        ELSE DeleteResult(store, intent, confidence, found.target, <<>>, lcs)

\* a mutant of UserMessage: the text of the first context email is searched
\* for keywords along with the message
UserMessageWithContext(text) ==
    Strip(Lower(text \o (IF email_context = <<>> THEN <<>>
                         ELSE <<" ">> \o email_context[1].subject)))

\* chat.py:48: request.message.lower().strip()
UserMessage(text) == Strip(Lower(text))

\* a mutant of DigestMaxResults: the digest batch follows the phrasing, as
\* the read branch does
DigestMaxResultsPhrased == ReadMaxResults(UserMessage(message))

\* chat.py:188  get_recent_emails(max_results=20)
DigestMaxResults == 20

\* chat.py:187-193
DigestBranch(store, intent, confidence, lcs) ==
    \E list \in ListOutcomes :
    \E failed \in SUBSET (DOMAIN Take(inbox, DigestMaxResults)) :
    LET got == GetRecentEmails(inbox, DigestMaxResults, list, failed)
        cs == <<Call("get_recent_emails", DigestMaxResults, JNull, list,
                     IdsOf(got.emails))>>
    IN  IF got.raised
        THEN /\ failed = {}
             /\ Finish(ServerError, cs, lcs, "digest", NoEmail, store, inbox)
        ELSE \E out \in LmOutcomes :
             Finish(Envelope(intent, confidence,
                             "Here's your daily email digest:", "", 0,
                             "display_digest",
                             [digest |-> GenerateDailyDigest(got.emails, out),
                              email_count |-> Len(got.emails)]),
                    cs, lcs \o <<LlmCall("digest", "", out)>>, "digest", NoEmail,
                    store, inbox)

\* chat.py:195-204
InfoBranch(store, intent, confidence, lcs) ==
    Finish(Envelope(intent, confidence,
                    "I'm your AI email assistant! I can help you with: ...",
                    "", 0, "info", NoData),
           <<>>, lcs, "info", NoEmail, store, inbox)

(***************************************************************************)
(* POST /chat/message  (chat.py:41-213)                                    *)
(***************************************************************************)
ProcessChatMessage ==
    /\ pc = "ready"
    /\ \E refresh_ok \in RefreshOutcomes(sessions, token) :
       LET auth == GetCredentials(sessions, token, now, refresh_ok)
       IN  IF ~auth.ok
           THEN Finish(HttpError(401, auth.detail), <<>>, <<>>, "none", NoEmail,
                       auth.store, inbox)
           ELSE
           LET user_message == UserMessage(message)
               command_result == ProcessNaturalLanguageCommand(lm)
               intent == DictGet(command_result, "intent", "unknown")
               parameters == DictGet(command_result, "parameters", EmptyParams)
               confidence == DictGet(command_result, "confidence", "low")
               lcs == <<LlmCall("classify", "", lm.kind)>>
               taken == BranchOf(intent, user_message)
           IN  CASE taken = "read" ->
                        ReadBranch(auth.store, intent, confidence, user_message, lcs)
                 [] taken = "reply" ->
                        ReplyBranch(auth.store, intent, confidence, parameters, lcs)
                 [] taken = "delete" ->
                        DeleteBranch(auth.store, intent, confidence, parameters, lcs)
                 [] taken = "digest" ->
                        DigestBranch(auth.store, intent, confidence, lcs)
                 [] OTHER ->
                        InfoBranch(auth.store, intent, confidence, lcs)

(***************************************************************************)
(* POST /email/delete  (email.py:91-119): the caller's second, explicit    *)
(* call after a confirm_delete envelope.                                   *)
(***************************************************************************)
\* how messages().delete() may end for a message of the inbox
DeleteOutcomes == {"ok", "http_403", "http_503"}

\* email.py:104-116: the status of the HTTPException raised for an HttpError
DeleteErrorStatus(outcome) ==
    CASE outcome = "http_403" -> 403
      [] outcome = "http_404" -> 404
      [] OTHER -> 503

DeleteEmail ==
    /\ pc = "chat_done"
    /\ response.status = 200
    /\ response.action = "confirm_delete"
    /\ pc' = "delete_done"
    /\ \E message_id \in {response.data.email.id, "m0"} :
       \E refresh_ok \in RefreshOutcomes(sessions, token) :
       LET auth == GetCredentials(sessions, token, now, refresh_ok)
       IN  /\ sessions' = auth.store
           /\ IF ~auth.ok
              THEN /\ response' = HttpError(401, auth.detail)
                   /\ calls' = <<>>
                   /\ inbox' = inbox
              ELSE \E outcome \in
                        IF \E i \in DOMAIN inbox : inbox[i].id = message_id
                        THEN DeleteOutcomes ELSE {"http_404"} :
                   /\ calls' = <<Call("delete_email", 0, JNull, outcome,
                                      <<message_id>>)>>
                   /\ IF outcome = "ok"
                      THEN /\ inbox' = RemoveEmail(inbox, message_id)
                           /\ response' = [status |-> 200, success |-> TRUE,
                                           message |-> "Email deleted successfully"]
                      ELSE /\ inbox' = inbox
                           /\ response' = HttpError(DeleteErrorStatus(outcome),
                                                    "HttpError")
    /\ llm_calls' = <<>>
    /\ UNCHANGED <<request_vars, branch, target>>

(***************************************************************************)
(* The requests checked.  A request is the caller's message and context   *)
(* list together with the world it meets: the language model's answer to   *)
(* the classification, the provider inbox, the session store and the       *)
(* clock.  The families below vary one part of it each.                    *)
(***************************************************************************)
Intents == {"read", "reply", "delete", "digest", "unknown", "send"}

AllKeys == {"intent", "parameters", "confidence"}

LmObject(keys, intent, parameters, confidence) ==
    [kind |-> "object", obj |-> CommandResult(keys, intent, parameters, confidence)]

LmFail(kind) == [kind |-> kind, obj |-> CommandResult({}, "", EmptyParams, "")]

\* a session store holding one session for "t1", created at hour 0
StoreWith(creds) ==
    [t \in Tokens |-> IF t = "t1" THEN NewSession(creds, 0) ELSE NoSession]

EmptyStore == [t \in Tokens |-> NoSession]

\* the request and the world it meets
Request(msg, ctx, answer, box, store, t) ==
    /\ message = msg
    /\ email_context = ctx
    /\ lm = answer
    /\ inbox = box
    /\ sessions = store
    /\ now = t

FullInbox == Take(EmailPool, MaxInbox)

\* an answer for every intent, and a failed classification
RouteAnswers ==
    {LmObject(AllKeys, i, EmptyParams, "high") : i \in Intents}
    \cup {LmFail("transport_error")}

\* every message with every intent: which branch is taken
RouteInit ==
    \E m \in Messages, a \in RouteAnswers :
        Request(m, <<>>, a, <<>>, StoreWith("valid"), 1)

\* every keyword alone, inside a longer word, and next to punctuation
KeywordMessages ==
    UNION {{k, <<"x">> \o k, k \o <<"!">>, k \o <<"_">>} :
              k \in ReadKeywords \cup ReplyKeywords \cup DeleteKeywords
                    \cup DigestKeywords}

KeywordInit ==
    \E m \in KeywordMessages, a \in RouteAnswers :
        Request(m, <<>>, a, <<>>, StoreWith("valid"), 1)

SenderParams == {JAbsent, JStr(<<"a","l">>), JStr(<<"X">>), JStr(<<"z","z">>)}
SubjectParams == {JAbsent, JStr(<<"B","I","L","L">>), JStr(<<"t","a","x">>)}
IndexParams ==
    {JAbsent, JStr(<<"1">>), JStr(<<"2">>), JStr(<<"3">>), JStr(<<"0">>), JStr(<<"x">>)}

\* the reply and delete branches, entered by the intent or by the keyword
ResolveEntries ==
    {<<W_reply, "unknown">>, <<W_delete, "unknown">>,
     <<<<"h","i">>, "reply">>, <<<<"h","i">>, "delete">>}

\* every parameter combination with every context list: target resolution
ResolveInit ==
    \E e \in ResolveEntries, ctx \in Contexts :
    \E s \in SenderParams, k \in SubjectParams, i \in IndexParams :
        Request(e[1], ctx,
                LmObject(AllKeys, e[2],
                         ParamsDict([sender_email |-> s, subject_keyword |-> k,
                                     email_index |-> i, action_details |-> JAbsent]),
                         "medium"),
                FullInbox, StoreWith("valid"), 1)

ReadMessages ==
    {W_show, W_show \o <<" ">> \o W_all,
     W_show \o <<" ">> \o W_all \o <<" ","a","w","e">> \o W_some, W_digest,
     W_few \o <<" ">> \o W_digest}

\* the listing branches against every inbox
ReadInit ==
    \E m \in ReadMessages, box \in Inboxes :
        Request(m, <<>>, LmObject(AllKeys, "unknown", EmptyParams, "low"), box,
                StoreWith("valid"), 1)

\* parameters that are no strings
OddParams ==
    {ParamsNull,
     ParamsDict([sender_email |-> JNum(7), subject_keyword |-> JNull,
                 email_index |-> JAbsent, action_details |-> JAbsent]),
     ParamsDict([sender_email |-> JStr(<<"a","l">>), subject_keyword |-> JAbsent,
                 email_index |-> JNum(1), action_details |-> JAbsent]),
     ParamsDict([sender_email |-> JNull, subject_keyword |-> JNum(0),
                 email_index |-> JNum(0), action_details |-> JStr(<<"h","i">>)])}

\* parameters that are no strings, results with keys missing, and every
\* way the classification can fail
OddAnswers ==
    {LmObject(AllKeys, i, p, "low") :
        i \in {"reply", "delete", "unknown"}, p \in OddParams}
    \cup {LmObject(ks, "delete", EmptyParams, "high") : ks \in SUBSET AllKeys}
    \cup {LmFail(k) : k \in LmKinds \ {"object"}}

OddInit ==
    \E m \in {W_show, W_reply, W_delete, W_digest, <<"h","i">>} :
    \E ctx \in {<<>>, <<Email1, Email2>>}, a \in OddAnswers :
        Request(m, ctx, a, FullInbox, StoreWith("valid"), 1)

\* the session is missing, at or past its expiry, or its credentials are
\* not usable
AuthStores ==
    {<<EmptyStore, 1>>, <<StoreWith("valid"), SessionExpiry>>,
     <<StoreWith("valid"), SessionExpiry + 1>>}
    \cup {<<StoreWith(c), 1>> : c \in CredentialStates}

AuthInit ==
    \E m \in {W_show, W_delete, <<"h","i">>} :
    \E i \in {"read", "delete", "unknown"}, st \in AuthStores :
        Request(m, <<Email1>>, LmObject(AllKeys, i, EmptyParams, "high"),
                FullInbox, st[1], st[2])

\* every confidence the classifier may state
Confidences == {"high", "medium", "low"}

\* the same message and intent with context lists that hold keywords and
\* with every confidence
ContextInit ==
    \E m \in {<<"h","i">>, W_reply, W_digest} :
    \E ctx \in {<<>>, <<Email1>>, <<Email5>>, <<Email1, Email5>>} :
    \E i \in Intents, c \in Confidences :
        Request(m, ctx, LmObject(AllKeys, i, EmptyParams, c), FullInbox,
                StoreWith("valid"), 1)

Init ==
    /\ pc = "ready"
    /\ token = "t1"
    /\ \/ RouteInit
       \/ KeywordInit
       \/ ResolveInit
       \/ ReadInit
       \/ OddInit
       \/ AuthInit
       \/ ContextInit
    /\ issued = {t \in Tokens : sessions[t].exists}
    /\ response = NoResponse
    /\ calls = <<>>
    /\ llm_calls = <<>>
    /\ branch = "none"
    /\ target = NoEmail

Next == ProcessChatMessage \/ DeleteEmail

Spec == Init /\ [][Next]_vars

(***************************************************************************)
(* The session store over time: the endpoints of routes/auth.py and the    *)
(* methods of SessionManager, called in any order while the clock          *)
(* advances.  Callers present a token they were given, or one they made    *)
(* up; a token handed out is never handed out again.                       *)
(***************************************************************************)
\* a token no create_session returned
ForgedToken == "t0"

AllTokens == Tokens \cup {ForgedToken}

\* the tokens a caller can present
Presentable == issued \cup {ForgedToken}

\* the clock is read every half session lifetime
ClockStep == SessionExpiry \div 2

\* what a call of this section answered; log is the line it logged
SessionResponse(op, status, detail, session, log) ==
    [op |-> op, status |-> status, detail |-> detail, session |-> session,
     log |-> log]

\* the chat variables play no part here
ChatIdle ==
    UNCHANGED <<pc, message, email_context, lm, inbox, calls, llm_calls,
                branch, target>>

SessionInit ==
    /\ pc = "session"
    /\ sessions = [t \in AllTokens |-> NoSession]
    /\ issued = {}
    /\ now = 0
    /\ token = ForgedToken
    /\ response = SessionResponse("none", 0, "", NoSession, "")
    /\ message = <<>>
    /\ email_context = <<>>
    /\ lm = LmFail("no_content")
    /\ inbox = <<>>
    /\ calls = <<>>
    /\ llm_calls = <<>>
    /\ branch = "none"
    /\ target = NoEmail

\* GET /auth/callback (auth.py:71-110): a session is created for fresh
\* credentials
Callback ==
    /\ pc = "session"
    /\ \E t \in Tokens \ issued :
        /\ sessions' = CreateSession(sessions, t, "valid", now)
        /\ issued' = issued \cup {t}
        /\ token' = t
        /\ response' = SessionResponse("create_session", 302, "", NoSession,
                                       "Session created")
    /\ now' = now
    /\ ChatIdle

\* GET /auth/me (auth.py:112-124): get_session, 401 when it returns None
Me ==
    /\ pc = "session"
    /\ \E t \in Presentable :
        LET got == GetSession(sessions, t, now)
        IN  /\ sessions' = got.store
            /\ token' = t
            /\ response' =
                 SessionResponse("get_session",
                                 IF got.session.exists THEN 200 ELSE 401,
                                 IF got.session.exists THEN ""
                                 ELSE "Invalid or expired session",
                                 got.session,
                                 IF got.store # sessions THEN "Session expired"
                                 ELSE "")
    /\ UNCHANGED <<now, issued>>
    /\ ChatIdle

\* get_credentials (auth.py:133-166), the first statement of every chat
\* and email endpoint
AuthenticatedCall ==
    /\ pc = "session"
    /\ \E t \in Presentable :
        \E refresh_ok \in RefreshOutcomes(sessions, t) :
        LET auth == GetCredentials(sessions, t, now, refresh_ok)
        IN  /\ sessions' = auth.store
            /\ token' = t
            /\ response' =
                 SessionResponse("get_credentials",
                                 IF auth.ok THEN 200 ELSE 401, auth.detail,
                                 NoSession,
                                 IF auth.store # sessions THEN "Session expired"
                                 ELSE "")
    /\ UNCHANGED <<now, issued>>
    /\ ChatIdle

\* POST /auth/logout (auth.py:126-131)
Logout ==
    /\ pc = "session"
    /\ \E t \in Presentable :
        /\ sessions' = DeleteSession(sessions, t)
        /\ token' = t
        /\ response' = SessionResponse("logout", 200, "Logged out successfully",
                                       NoSession,
                                       IF sessions[t].exists THEN "Session deleted"
                                       ELSE "")
    /\ UNCHANGED <<now, issued>>
    /\ ChatIdle

\* SessionManager.refresh_session (session.py:45-51)
Refresh ==
    /\ pc = "session"
    /\ \E t \in Presentable :
        LET done == RefreshSession(sessions, t, now)
        IN  /\ sessions' = done.store
            /\ token' = t
            /\ response' = SessionResponse("refresh_session",
                                           IF done.ok THEN 200 ELSE 0, "",
                                           NoSession, "")
    /\ UNCHANGED <<now, issued>>
    /\ ChatIdle

\* datetime.now() moves on
Tick ==
    /\ pc = "session"
    /\ now + ClockStep <= MaxTicks * ClockStep
    /\ now' = now + ClockStep
    /\ response' = SessionResponse("tick", 0, "", NoSession, "")
    /\ UNCHANGED <<sessions, issued, token>>
    /\ ChatIdle

SessionNext ==
    Callback \/ Me \/ AuthenticatedCall \/ Logout \/ Refresh \/ Tick

SpecSession == SessionInit /\ [][SessionNext]_vars

(***************************************************************************)
(* What the properties below speak of.                                     *)
(***************************************************************************)
\* the classifier result process_chat_message works with
ClassifierIntent == DictGet(ProcessNaturalLanguageCommand(lm), "intent", "unknown")
ClassifierParameters ==
    DictGet(ProcessNaturalLanguageCommand(lm), "parameters", EmptyParams)

\* the chat handler has answered, and not with the 401 of a bad session
ChatAnswered == pc = "chat_done" /\ branch # "none"

\* s[i..j] is a whole word of s: a run of word characters that no word
\* character precedes or follows
WholeWordAt(s, i, j) ==
    /\ 1 <= i /\ i <= j /\ j <= Len(s)
    /\ \A k \in i..j : IsWordChar(s[k])
    /\ i = 1 \/ ~IsWordChar(s[i - 1])
    /\ j = Len(s) \/ ~IsWordChar(s[j + 1])

ContainsWholeWord(s, w) ==
    \E i \in 1..(Len(s) - Len(w) + 1) :
        SubSeq(s, i, i + Len(w) - 1) = w /\ WholeWordAt(s, i, i + Len(w) - 1)

BranchOrder == <<"read", "reply", "delete", "digest">>

KeywordsOf(x) ==
    CASE x = "read" -> {W_read, W_show, W_fetch}
      [] x = "reply" -> {W_reply, W_respond}
      [] x = "delete" -> {W_delete, W_remove}
      [] x = "digest" -> {W_digest, W_summary}

\* the branches of which the lower-cased, trimmed message holds a keyword
\* as a whole word
KeywordMatches ==
    LET text == Strip(Lower(message))
    IN  {x \in Range(BranchOrder) :
            \E k \in KeywordsOf(x) : ContainsWholeWord(text, k)}

\* the branches whose condition is true: the classifier's intent, or a keyword
BranchConditions == KeywordMatches \cup ({ClassifierIntent} \cap Range(BranchOrder))

HasDeleteCall(cs) == \E i \in DOMAIN cs : cs[i].op = "delete_email"

(***************************************************************************)
(* C1.  process_chat_message never invokes the Mailbox Client's delete:    *)
(* a step of the chat handler leaves the inbox as it is and makes no       *)
(* delete_email call, and when its delete branch ends with a target the    *)
(* answer is the confirm_delete envelope carrying that email's id.  The    *)
(* provider delete is made only by a step of POST /email/delete.           *)
(***************************************************************************)
C1_ChatNeverDeletes ==
    [][/\ pc = "ready" =>
            /\ inbox' = inbox
            /\ ~HasDeleteCall(calls')
            /\ (branch' = "delete" /\ target' # NoEmail) =>
                    /\ response'.status = 200
                    /\ response'.action = "confirm_delete"
                    /\ response'.data.email.id = target'.id
       /\ (inbox' # inbox \/ HasDeleteCall(calls')) =>
            pc = "chat_done" /\ pc' = "delete_done"]_vars

\* the delete branch resolved a target, asked for confirmation, and the
\* email is still in the inbox
C1_Witness ==
    /\ pc = "chat_done"
    /\ branch = "delete"
    /\ target # NoEmail
    /\ response.status = 200
    /\ response.action = "confirm_delete"
    /\ \E i \in DOMAIN inbox : inbox[i].id = target.id

(***************************************************************************)
(* C2.  The branch taken is the first of read, reply, delete, digest       *)
(* whose condition (classifier intent = X, or the lower-cased, trimmed     *)
(* message holds a keyword of X as a whole word) is true.                  *)
(***************************************************************************)
C2_FirstBranchWins ==
    ChatAnswered =>
        LET holds == BranchConditions
        IN  \A i \in DOMAIN BranchOrder :
                (/\ BranchOrder[i] \in holds
                 /\ \A j \in 1..(i - 1) : BranchOrder[j] \notin holds)
                => branch = BranchOrder[i]

\* intent "delete" with the word "show" in the message takes the read branch
C2_Witness ==
    /\ ChatAnswered
    /\ ClassifierIntent = "delete"
    /\ ContainsWholeWord(Strip(Lower(message)), W_show)
    /\ branch = "read"

(***************************************************************************)
(* C3.  As stated: a message that holds a keyword of a set as a whole      *)
(* word takes the branch of that set, whatever the classifier returns.     *)
(***************************************************************************)
C3_KeywordAlwaysRoutes ==
    ChatAnswered => \A x \in KeywordMatches : branch = x

(***************************************************************************)
(* C3, amended.  A message that holds a keyword of a set as a whole word   *)
(* takes the branch of that set whenever no branch earlier in the order    *)
(* read, reply, delete, digest has its condition true; this also when the  *)
(* classifier returns "unknown" or fails.                                  *)
(***************************************************************************)
C3_KeywordRoutesUnlessEarlier ==
    ChatAnswered =>
        LET words == KeywordMatches
            holds == BranchConditions
        IN  \A i \in DOMAIN BranchOrder :
                (/\ BranchOrder[i] \in words
                 /\ \A j \in 1..(i - 1) : BranchOrder[j] \notin holds)
                => branch = BranchOrder[i]

\* the classification failed and the keyword alone picked the delete branch
C3_Witness ==
    /\ ChatAnswered
    /\ lm.kind = "transport_error"
    /\ "delete" \in KeywordMatches
    /\ branch = "delete"

(***************************************************************************)
(* C4.  When the classifier's intent is none of read, reply, delete,       *)
(* digest and the message holds no keyword as a whole word, the answer is  *)
(* the fixed "info" envelope and no Mailbox Client call is made.           *)
(***************************************************************************)
C4_UnknownYieldsInfo ==
    (ChatAnswered /\ BranchConditions = {})
    => /\ response.status = 200
       /\ response.action = "info"
       /\ response.message =
            [text |-> "I'm your AI email assistant! I can help you with: ...",
             name |-> "", n |-> 0]
       /\ response.data = NoData
       /\ calls = <<>>

\* an intent outside the four and a message with a keyword inside a longer
\* word only
C4_Witness ==
    /\ ChatAnswered
    /\ ClassifierIntent = "send"
    /\ Contains(Lower(message), W_read)
    /\ response.status = 200
    /\ response.action = "info"

(***************************************************************************)
(* Target resolution, as the properties speak of it.                       *)
(***************************************************************************)
\* parameters.get(key, "") of the classifier result
Param(key) == ParamGet(ClassifierParameters, key)

\* the parameter is a non-empty string
Present(v) == v.t = "str" /\ v.s # <<>>

\* the digit string of k, for 0 <= k <= 9
DigitString(k) == <<Digits[k + 1]>>

\* the 1-based positions of the context list a digit string can name
Positions == (1..Len(email_context)) \cap (1..9)

\* email_index is a digit string naming no position of the context list
IndexOutOfRange ==
    \E k \in 0..9 : k \notin Positions /\ Param("email_index") = JStr(DigitString(k))

\* email_index names a position of the context list
IndexInRange ==
    \E k \in Positions : Param("email_index") = JStr(DigitString(k))

\* the positions of the context emails whose field contains the text,
\* letter case ignored
Hits(field, text) ==
    {i \in DOMAIN email_context :
        Contains(Lower(email_context[i][field]), Lower(text))}

First(positions) == CHOOSE i \in positions : \A j \in positions : i <= j

\* the reply or delete branch ran with parameters that are a dict
Resolving(b) == ChatAnswered /\ branch = b /\ ClassifierParameters.t = "dict"

(***************************************************************************)
(* C5.  In the reply and delete branches, an email_index that is the digit *)
(* string of a position k of the context list selects context[k-1]         *)
(* whatever sender_email and subject_keyword say: the target is that       *)
(* email, the answer carries its id, and no provider search is made.       *)
(***************************************************************************)
C5_IndexWins ==
    \A b \in {"reply", "delete"} :
        Resolving(b) =>
            \A k \in Positions :
                Param("email_index") = JStr(DigitString(k)) =>
                    /\ target = email_context[k]
                    /\ calls = <<>>
                    /\ response.status = 200
                    /\ b = "reply" =>
                        /\ response.action = "display_reply"
                        /\ response.data.original_email.id = email_context[k].id
                    /\ b = "delete" =>
                        /\ response.action = "confirm_delete"
                        /\ response.data.email.id = email_context[k].id

\* index "2" with a sender that matches the first context email and not
\* the second: the second is the target
C5_Witness ==
    /\ Resolving("reply")
    /\ Len(email_context) >= 2
    /\ Param("email_index") = JStr(DigitString(2))
    /\ Present(Param("sender_email"))
    /\ Hits("sender_email", Param("sender_email").s) = {1}
    /\ target = email_context[2]
    /\ response.action = "display_reply"

(***************************************************************************)
(* C6.  In the reply branch, a digit email_index out of range of a         *)
(* non-empty context list, with sender_email present, falls through to     *)
(* the sender scan: the first context email whose sender contains          *)
(* sender_email is the target, and the provider search by sender is run    *)
(* only when no context email matches.                                     *)
(***************************************************************************)
C6_OutOfRangeFallsToSenderScan ==
    (/\ Resolving("reply")
     /\ Len(email_context) > 0
     /\ IndexOutOfRange
     /\ Present(Param("sender_email")))
    => LET hits == Hits("sender_email", Param("sender_email").s)
       IN  IF hits # {}
           THEN target = email_context[First(hits)] /\ calls = <<>>
           ELSE Len(calls) = 1 /\ calls[1].op = "find_email_by_sender"

(***************************************************************************)
(* C7.  In the delete branch, when neither the index nor the sender scan   *)
(* selects a context email and subject_keyword is present, the first       *)
(* context email whose subject contains subject_keyword is the target and  *)
(* no provider search is made; this also when sender_email is present but  *)
(* matches no context email.                                               *)
(***************************************************************************)
C7_SubjectScanBeforeProvider ==
    (/\ Resolving("delete")
     /\ Param("email_index").t = "str"
     /\ Param("sender_email").t = "str"
     /\ ~IndexInRange
     /\ Present(Param("sender_email")) =>
            Hits("sender_email", Param("sender_email").s) = {}
     /\ Present(Param("subject_keyword"))
     /\ Hits("subject", Param("subject_keyword").s) # {})
    => /\ target = email_context[First(Hits("subject", Param("subject_keyword").s))]
       /\ calls = <<>>

(***************************************************************************)
(* C8.  In the delete branch, when nothing was found in the context and    *)
(* sender_email and subject_keyword are both present, the provider search  *)
(* by sender is run first and, if it returns no email, the provider search *)
(* by subject is run next; the error envelope is returned only when both   *)
(* return nothing.                                                         *)
(***************************************************************************)
C8_ProviderSenderThenSubject ==
    (/\ Resolving("delete")
     /\ response.status = 200
     /\ Present(Param("sender_email"))
     /\ Present(Param("subject_keyword"))
     /\ DeleteContextTarget(email_context, Param("email_index"),
                            Param("sender_email"),
                            Param("subject_keyword")) = Resolved(NoEmail))
    => /\ Len(calls) >= 1
       /\ calls[1].op = "find_email_by_sender"
       /\ calls[1].outcome # "found" =>
            /\ Len(calls) = 2
            /\ calls[2].op = "find_email_by_subject"
       /\ response.action = "error" =>
            /\ Len(calls) = 2
            /\ calls[2].outcome # "found"

(***************************************************************************)
(* C9.  In the read branch, whatever was fetched and whichever summaries   *)
(* failed, the answer is display_emails and lists every fetched email      *)
(* once, in fetch order; an email whose summary failed carries the fixed   *)
(* placeholder and every other email the summary the model wrote for it.   *)
(***************************************************************************)
C9_SummaryFailureIsolated ==
    (ChatAnswered /\ branch = "read" /\ calls[1].outcome = "ok")
    => LET fetched == calls[1].ids
       IN  /\ response.status = 200
           /\ response.action = "display_emails"
           /\ response.message.n = Len(fetched)
           /\ Len(response.data.emails) = Len(fetched)
           /\ Len(llm_calls) = Len(fetched) + 1
           /\ \A i \in DOMAIN fetched :
                /\ response.data.emails[i].id = fetched[i]
                /\ \A j \in DOMAIN fetched : fetched[j] = fetched[i] => j = i
                /\ llm_calls[i + 1].op = "summary"
                /\ llm_calls[i + 1].id = fetched[i]
                /\ response.data.emails[i].ai_summary =
                     CASE llm_calls[i + 1].outcome = "error" ->
                            [kind |-> "fixed", of |-> "",
                             text |-> "Unable to generate summary at this time."]
                       [] llm_calls[i + 1].outcome = "none" ->
                            [kind |-> "fixed", of |-> "", text |-> ""]
                       [] OTHER ->
                            [kind |-> "summary", of |-> fetched[i],
                             text |-> "model text"]

\* two emails fetched, the summary of the first failed, the second did not
C9_Witness ==
    /\ ChatAnswered
    /\ branch = "read"
    /\ response.status = 200
    /\ Len(response.data.emails) = 2
    /\ llm_calls[2].outcome = "error"
    /\ llm_calls[3].outcome = "text"
    /\ response.data.emails[2].ai_summary.kind = "summary"

(***************************************************************************)
(* C10.  As stated: the read branch asks for 20 recent emails exactly when *)
(* the lower-cased message contains "many", "all" or "20", and for 5       *)
(* otherwise, whether or not it also contains "few" or "some".             *)
(***************************************************************************)
WantsMany ==
    \/ Contains(Lower(message), W_many)
    \/ Contains(Lower(message), W_all)
    \/ Contains(Lower(message), W_20)

WantsFew == Contains(Lower(message), W_few) \/ Contains(Lower(message), W_some)

C10_FewSomeIsNoOp ==
    (ChatAnswered /\ branch = "read") =>
        calls[1].n = IF WantsMany THEN 20 ELSE 5

(***************************************************************************)
(* C10, amended.  The read branch asks for 20 recent emails exactly when   *)
(* the lower-cased message contains "many", "all" or "20" and contains     *)
(* neither "few" nor "some", and for 5 otherwise.                          *)
(***************************************************************************)
C10_FewSomeKeepsFive ==
    (ChatAnswered /\ branch = "read") =>
        /\ calls[1].op = "get_recent_emails"
        /\ calls[1].n = IF WantsMany /\ ~WantsFew THEN 20 ELSE 5

\* "all" and "some" in one message: 5 emails are asked for
C10_Witness ==
    /\ ChatAnswered
    /\ branch = "read"
    /\ Contains(Lower(message), W_all)
    /\ Contains(Lower(message), W_some)
    /\ calls[1].n = 5

(***************************************************************************)
(* C11.  Whenever the digest branch is taken, exactly one Mailbox Client   *)
(* call is made and it asks for 20 recent emails, whatever the message     *)
(* says ("few", "some", "many", "all", "20"); when the listing succeeds    *)
(* the answer is display_digest with email_count equal to the number of    *)
(* emails fetched.                                                         *)
(***************************************************************************)
C11_DigestAlwaysTwenty ==
    (ChatAnswered /\ branch = "digest") =>
        /\ Len(calls) = 1
        /\ calls[1].op = "get_recent_emails"
        /\ calls[1].n = 20
        /\ calls[1].outcome = "ok" =>
                /\ response.status = 200
                /\ response.action = "display_digest"
                /\ response.data.email_count = Len(calls[1].ids)

\* "few digest" against an inbox of two, one of which could not be
\* fetched: 20 asked for, one email counted
C11_Witness ==
    /\ ChatAnswered
    /\ branch = "digest"
    /\ WantsFew
    /\ Len(inbox) = 2
    /\ calls[1].n = 20
    /\ response.status = 200
    /\ response.action = "display_digest"
    /\ response.data.email_count = 1

(***************************************************************************)
(* C12.  When the token has no session, or its session is past             *)
(* expires_at, the chat handler answers with the 401 that get_credentials  *)
(* raised, "Invalid or expired session", and calls neither the Intent      *)
(* Classifier, the Language Model Client nor the Mailbox Client: no branch *)
(* is entered and the inbox stays as it is.                                *)
(***************************************************************************)
C12_NoSessionNoCalls ==
    [][(/\ pc = "ready"
        /\ \/ ~sessions[token].exists
           \/ now > sessions[token].expires_at)
       => /\ pc' = "chat_done"
          /\ response' = [status |-> 401, detail |-> "Invalid or expired session"]
          /\ llm_calls' = <<>>
          /\ calls' = <<>>
          /\ branch' = "none"
          /\ inbox' = inbox
          /\ ~sessions'[token].exists]_vars

\* the session was past its expiry when the request came: 401, nothing
\* called, and the entry is gone from the store
C12_Witness ==
    /\ pc = "chat_done"
    /\ now > SessionExpiry
    /\ ~sessions[token].exists
    /\ response.status = 401
    /\ llm_calls = <<>>
    /\ calls = <<>>

(***************************************************************************)
(* C13.  In the read and digest branches a Mailbox Client failure of the   *)
(* listing reaches the caller with its class: a provider 401 or 403 is     *)
(* answered with 401 or 403, a transport failure with a 5xx.               *)
(***************************************************************************)
C13_ListingFailureKeepsClass ==
    (/\ ChatAnswered
     /\ branch \in {"read", "digest"}
     /\ calls[1].outcome # "ok")
    => CASE calls[1].outcome = "http_401" -> response.status = 401
         [] calls[1].outcome = "http_403" -> response.status = 403
         [] OTHER -> response.status >= 500 /\ response.status <= 599

(***************************************************************************)
(* C14.  In the reply and delete branches the "error" envelope is          *)
(* returned only when no email matches the reference: every provider       *)
(* search made for the request ended without a match and without a         *)
(* failure.  A provider failure during the search is never answered with   *)
(* the "couldn't find the email" envelope.                                 *)
(***************************************************************************)
C14_SearchFailureIsNoMiss ==
    (/\ ChatAnswered
     /\ branch \in {"reply", "delete"}
     /\ response.status = 200
     /\ response.action = "error")
    => \A i \in DOMAIN calls : calls[i].outcome = "none"

(***************************************************************************)
(* C15.  A Language Model Client failure does not end the branch: when     *)
(* the reply generation fails for a resolved target the answer is still    *)
(* display_reply for that target, with the fixed placeholder as the        *)
(* draft; when the digest generation fails the answer is still             *)
(* display_digest, with the fixed placeholder as the digest.               *)
(***************************************************************************)
C15_LmFailureKeepsBranch ==
    ChatAnswered =>
        \A i \in DOMAIN llm_calls :
            /\ (llm_calls[i].op = "reply" /\ llm_calls[i].outcome = "error") =>
                    /\ target # NoEmail
                    /\ response.status = 200
                    /\ response.action = "display_reply"
                    /\ response.data.original_email.id = target.id
                    /\ response.data.reply =
                         [kind |-> "fixed", of |-> "",
                          text |-> "I apologize, but I'm having trouble generating a reply right now. Please try again later."]
            /\ (llm_calls[i].op = "digest" /\ llm_calls[i].outcome = "error") =>
                    /\ response.status = 200
                    /\ response.action = "display_digest"
                    /\ response.data.digest =
                         [kind |-> "fixed", of |-> "",
                          text |-> "Unable to generate digest at this time."]

\* the target came from the provider search and the reply generation failed
C15_Witness ==
    /\ ChatAnswered
    /\ branch = "reply"
    /\ Len(calls) = 1
    /\ calls[1].outcome = "found"
    /\ target.id = calls[1].ids[1]
    /\ llm_calls[Len(llm_calls)] = [op |-> "reply", id |-> target.id, outcome |-> "error"]
    /\ response.action = "display_reply"

(***************************************************************************)
(* C16.  process_natural_language_command never raises.  On a transport    *)
(* error, missing content, or a model response that is no JSON object, it  *)
(* returns intent "unknown", parameters {} and confidence "low" with an    *)
(* error description; the handler goes on with that result, so the branch  *)
(* is picked by the keywords alone and a 500 can only come from a later    *)
(* Mailbox Client failure.                                                 *)
(***************************************************************************)
C16_ClassifierNeverRaises ==
    (ChatAnswered /\ lm.kind # "object") =>
        LET result == ProcessNaturalLanguageCommand(lm)
        IN  /\ result.keys = {"intent", "parameters", "confidence", "error"}
            /\ result.intent = "unknown"
            /\ result.parameters.t = "dict"
            /\ \A k \in ParamKeys : result.parameters.d[k].t = "absent"
            /\ result.confidence = "low"
            /\ llm_calls[1] = [op |-> "classify", id |-> "", outcome |-> lm.kind]
            /\ branch \in KeywordMatches \cup {"info"}
            /\ response.status \in {200, 500}
            /\ response.status = 500 =>
                    Len(calls) = 1 /\ calls[1].outcome \notin {"ok", "found", "none"}
            /\ response.status = 200 =>
                    response.intent = "unknown" /\ response.confidence = "low"

\* the model's answer could not be parsed; the keyword "reply" picked the
\* branch and, with no parameters, nothing was resolved
C16_Witness ==
    /\ ChatAnswered
    /\ lm.kind = "unparsable"
    /\ branch = "reply"
    /\ response.status = 200
    /\ response.intent = "unknown"
    /\ response.action = "error"

(***************************************************************************)
(* The session store, as the properties speak of it.                       *)
(***************************************************************************)
\* a token whose entry is gone from the store stays without one
GoneStaysGone ==
    \A t \in Presentable : ~sessions[t].exists => ~sessions'[t].exists

(***************************************************************************)
(* C17.  Under any interleaving of create_session, get_session,            *)
(* delete_session and clock advances: get_session(token) returns a         *)
(* session only if the store holds one for the token and the clock is not  *)
(* past its expires_at, and then returns that one; a get_session past      *)
(* expires_at returns nothing and removes the entry; and a token whose     *)
(* entry is gone never has one again, so every later get_session for it    *)
(* returns nothing.                                                        *)
(***************************************************************************)
C17_ExpiredSessionRemoved ==
    [][/\ response'.op = "get_session" =>
            /\ response'.session.exists =>
                    /\ sessions[token'].exists
                    /\ now <= sessions[token'].expires_at
                    /\ response'.session = sessions[token']
                    /\ sessions' = sessions
            /\ ~sessions[token'].exists => ~response'.session.exists
            /\ (sessions[token'].exists /\ now > sessions[token'].expires_at) =>
                    /\ ~response'.session.exists
                    /\ sessions' = [sessions EXCEPT ![token'] = NoSession]
       /\ GoneStaysGone]_vars

\* a get_session found the session expired and removed it, another
\* session staying in the store
C17_Witness ==
    /\ pc = "session"
    /\ response.op = "get_session"
    /\ response.log = "Session expired"
    /\ ~response.session.exists
    /\ token \in issued
    /\ ~sessions[token].exists
    /\ \E t \in issued : sessions[t].exists

(***************************************************************************)
(* C18.  logout(token) removes the session of the token, leaves every      *)
(* other session as it was, and reports success also for a token that has  *)
(* no session; a token without a session never has one again, and every    *)
(* authenticated call with it (get_session, get_credentials, with which    *)
(* the chat and email endpoints begin) fails as unauthenticated, 401.      *)
(***************************************************************************)
C18_LogoutEndsSession ==
    [][/\ response'.op = "logout" =>
            /\ ~sessions'[token'].exists
            /\ \A t \in AllTokens \ {token'} : sessions'[t] = sessions[t]
            /\ response'.status = 200
            /\ response'.detail = "Logged out successfully"
       /\ GoneStaysGone
       /\ (/\ response'.op \in {"get_session", "get_credentials"}
           /\ ~sessions[token'].exists) =>
                /\ response'.status = 401
                /\ response'.detail = "Invalid or expired session"
                /\ sessions' = sessions]_vars

\* before any session could expire: a token that was handed out has no
\* session any more, an authenticated call with it got 401, and the other
\* session is still there
C18_Witness ==
    /\ pc = "session"
    /\ now < SessionExpiry
    /\ token \in issued
    /\ ~sessions[token].exists
    /\ response.op = "get_credentials"
    /\ response.status = 401
    /\ \E t \in issued : sessions[t].exists

(***************************************************************************)
(* C19.  The branch taken is a function of the classifier's intent and of  *)
(* the user's own message: it is RouteOf(intent, message) whatever the     *)
(* context list holds and whatever confidence the classifier states, and   *)
(* a branch the intent does not name is taken only for a keyword that is   *)
(* a whole word of the message itself.                                     *)
(***************************************************************************)
RouteOf(intent, text) ==
    LET hit(x) == intent = x \/ \E k \in KeywordsOf(x) : ContainsWholeWord(text, k)
    IN  IF hit("read") THEN "read"
        ELSE IF hit("reply") THEN "reply"
        ELSE IF hit("delete") THEN "delete"
        ELSE IF hit("digest") THEN "digest"
        ELSE "info"

C19_BranchFromIntentAndMessage ==
    ChatAnswered =>
        /\ branch = RouteOf(ClassifierIntent, Strip(Lower(message)))
        /\ (branch # "info" /\ branch # ClassifierIntent) => branch \in KeywordMatches

\* the context email holds "delete" and "show", the message neither: with
\* intent "unknown" the answer is the info envelope
C19_Witness ==
    /\ ChatAnswered
    /\ Len(email_context) >= 1
    /\ ContainsWholeWord(Lower(email_context[1].subject), W_delete)
    /\ ContainsWholeWord(Lower(email_context[1].subject), W_show)
    /\ KeywordMatches = {}
    /\ ClassifierIntent = "unknown"
    /\ response.confidence = "high"
    /\ branch = "info"

(***************************************************************************)
(* C20.  With a valid session and no Mailbox Client failure, the chat      *)
(* handler answers every classifier result that is a JSON object with an   *)
(* envelope, whatever the types of its fields: also with parameters null   *)
(* or email_index a JSON number the reply and delete branches answer       *)
(* display_reply, confirm_delete or error, not a server error.             *)
(***************************************************************************)
C20_OddTypesStillAnswered ==
    (/\ ChatAnswered
     /\ lm.kind = "object"
     /\ \A i \in DOMAIN calls : calls[i].outcome \in {"ok", "found", "none"})
    => /\ response.status = 200
       /\ branch = "reply" => response.action \in {"display_reply", "error"}
       /\ branch = "delete" => response.action \in {"confirm_delete", "error"}

(***************************************************************************)
(* C21.  When the classifier's result is intent "unknown" with parameters  *)
(* {} (as when it fails) and a keyword alone leads into the reply or       *)
(* delete branch, no target is resolved whatever the context list holds:   *)
(* the answer is the "error" envelope, and there is no provider search,    *)
(* no reply generation and no confirm_delete.                              *)
(***************************************************************************)
C21_KeywordAloneResolvesNothing ==
    (/\ ChatAnswered
     /\ branch \in {"reply", "delete"}
     /\ ClassifierIntent = "unknown"
     /\ ClassifierParameters.t = "dict"
     /\ \A k \in ParamKeys : ClassifierParameters.d[k].t = "absent")
    => /\ branch \in KeywordMatches
       /\ target = NoEmail
       /\ response.status = 200
       /\ response.action = "error"
       /\ response.data = NoData
       /\ calls = <<>>
       /\ \A i \in DOMAIN llm_calls : llm_calls[i].op = "classify"

\* the classification failed, the message says "reply", the context list
\* holds two emails: the error envelope
C21_Witness ==
    /\ ChatAnswered
    /\ lm.kind # "object"
    /\ branch = "reply"
    /\ Len(email_context) = 2
    /\ response.status = 200
    /\ response.action = "error"

(***************************************************************************)
(* C22.  The envelope's intent and confidence are those of the classifier  *)
(* result ("unknown" and "low" where the result has none), whichever       *)
(* branch is taken; the action is one of the branch taken, so an envelope  *)
(* may carry intent "unknown" with action "display_emails".                *)
(***************************************************************************)
ActionsOf(b) ==
    CASE b = "read" -> {"display_emails"}
      [] b = "reply" -> {"display_reply", "error"}
      [] b = "delete" -> {"confirm_delete", "error"}
      [] b = "digest" -> {"display_digest"}
      [] OTHER -> {"info"}

C22_IntentAndConfidenceCopied ==
    (ChatAnswered /\ response.status = 200) =>
        /\ response.intent =
             IF lm.kind = "object" /\ "intent" \in lm.obj.keys
             THEN lm.obj.intent ELSE "unknown"
        /\ response.confidence =
             IF lm.kind = "object" /\ "confidence" \in lm.obj.keys
             THEN lm.obj.confidence ELSE "low"
        /\ response.action \in ActionsOf(branch)

\* the keyword "show" picked the read branch while the classifier said
\* "delete" with confidence "high"
C22_Witness ==
    /\ ChatAnswered
    /\ branch = "read"
    /\ response.status = 200
    /\ response.action = "display_emails"
    /\ response.intent = "delete"
    /\ response.confidence = "high"

(***************************************************************************)
(* C23.  Whatever session-store operations are called (create_session,     *)
(* get_session, delete_session, refresh_session), expires_at of a stored   *)
(* session stays created_at + 24h, and get_session never returns a         *)
(* session once the clock is past that: an expired session is not          *)
(* revived.                                                                *)
(***************************************************************************)
C23_ExpiredNeverRevived ==
    pc = "session" =>
        /\ \A t \in AllTokens :
                sessions[t].exists =>
                    sessions[t].expires_at = sessions[t].created_at + 24
        /\ (response.op = "get_session" /\ response.session.exists) =>
                now <= response.session.created_at + 24

=============================================================================
